---- MODULE Spec2Model ----
(***************************************************************************)
(* Model of oatie's DocString (a shared, range-viewed text run) and of the *)
(* DividedString cursor splitter, src/oatie/src/string.rs.                 *)
(*                                                                         *)
(* Text is modelled as the sequence of its UTF-8 bytes, so that character  *)
(* offsets and byte offsets differ exactly where they differ in the code.  *)
(* Arc<String> and Arc<StyleMap> are handles into two append-only heaps,   *)
(* bufs and maps, so that sharing between runs is part of the state.       *)
(***************************************************************************)
EXTENDS Integers, Sequences, FiniteSets, TLC

\* ---------------------------------------------------------------- bounds
MaxRuns == 3       \* run handles held by the caller
MaxBufs == 3       \* backing buffers allocated in one behaviour
MaxMaps == 3       \* style maps allocated in one behaviour
MaxLen == 4        \* byte length of a buffer built by push_str
MaxIndex == 3      \* largest index handed to DividedString::new
MaxSeek == 2       \* largest |delta| handed to seek

\* usize::MAX.  Every index of the model lies far below it; the value is the
\* largest integer the checker represents.
UsizeMax == 2147483647

\* ------------------------------------------------------------ input data
\* "", "ab", "éa" (C3 A9 61), "aé" (61 C3 A9)
Texts == { <<>>, <<97, 98>>, <<195, 169, 97>>, <<97, 195, 169>> }

\* texts appended by push_str: "c", "é"
PushTexts == { <<99>>, <<195, 169>> }

Style == {"Bold", "Italic", "Link"}

\* Option<String> payloads: None, Some("u1"), Some("u2")
Payload == {"None", "u1", "u2"}

EmptyMap == [k \in {} |-> "None"]

\* StyleMap values a run is constructed with
StyleMaps == { [k \in {"Bold"} |-> "None"],
               [k \in {"Bold", "Link"} |-> IF k = "Link" THEN "u1" ELSE "None"] }

ExtendMaps == { [k \in {"Link"} |-> "u2"], [k \in {"Italic"} |-> "None"] }

StyleSets == { {}, {"Bold"}, {"Link"}, {"Bold", "Link"} }

\* -------------------------------------------------------- UTF-8 helpers
\* a continuation byte 10xxxxxx
IsCont(b) == b >= 128 /\ b < 192

\* str::is_char_boundary
IsCharBoundary(s, i) ==
    \/ i = 0
    \/ i = Len(s)
    \/ (i > 0 /\ i < Len(s) /\ ~IsCont(s[i + 1]))

\* bytes consumed by core::str::next_code_point for lead byte b
Utf8Width(b) == IF b < 128 THEN 1 ELSE IF b < 224 THEN 2 ELSE IF b < 240 THEN 3 ELSE 4

\* str::chars().count()
CharCount(s) == Cardinality({i \in 1..Len(s) : ~IsCont(s[i])})

\* the slice panics: stands for the unwinding of as_str's index expression
Panic == <<-1>>

\* &s[start..end]
Slice(s, start, end) ==
    IF start <= end /\ end <= Len(s) /\ IsCharBoundary(s, start) /\ IsCharBoundary(s, end)
    THEN SubSeq(s, start + 1, end)
    ELSE Panic

RECURSIVE Advance(_, _, _)
Advance(s, pos, n) ==
    IF n = 0 \/ pos >= Len(s) THEN pos
    ELSE Advance(s, pos + Utf8Width(s[pos + 1]), n - 1)

\* an offset counted in bytes instead of code points
slice_inner_bytes(s, b) == IF b > Len(s) THEN Len(s) ELSE b

\* DocString::slice_inner: byte offset of the b-th code point of s
slice_inner(s, b) == Advance(s, 0, b)

\* ------------------------------------------------------------ DocString
None == <<>>

\* DocString(Arc<String>, Option<Range<usize>>, Option<Arc<StyleMap>>)
DocString(buf, range, styles) == [buf |-> buf, range |-> range, styles |-> styles]

\* Range<usize>::len
RangeLen(range) == IF range[2] >= range[1] THEN range[2] - range[1] ELSE 0

\* DocString::as_str over the heap h of backing buffers
as_str(h, d) ==
    IF d.buf > Len(h) THEN Panic
    ELSE IF d.range # None THEN Slice(h[d.buf], d.range[1], d.range[2])
    ELSE h[d.buf]

\* DocString::char_len
char_len(h, d) == CharCount(as_str(h, d))

\* DocString::styles: the attached map's content, or None
styles(m, d) == IF d.styles = 0 THEN None ELSE <<m[d.styles]>>

\* ---------------------------------------------------------------- state
VARIABLES
    bufs,    \* heap of Arc<String> backing buffers
    maps,    \* heap of Arc<StyleMap> style maps
    runs,    \* the DocString values the caller holds
    ds,      \* the DividedString, <<>> when there is none
    last     \* the call just made: its arguments and what it returned

vars == <<bufs, maps, runs, ds, last>>

Call(op, ok, run, arg, text, set, map, out) ==
    [op |-> op, ok |-> ok, run |-> run, arg |-> arg, text |-> text,
     set |-> set, map |-> map, out |-> out]

\* one run, constructed by from_str / from_string (no styles) or by
\* from_str_styled / from_string_styled
Init ==
    /\ bufs \in {<<t>> : t \in Texts}
    /\ maps \in {<<>>} \cup {<<m>> : m \in StyleMaps}
    /\ runs = <<DocString(1, None, Len(maps))>>
    /\ ds = <<>>
    /\ last = Call("from_str", TRUE, 1, 0, bufs[1], {}, EmptyMap, <<>>)

\* style operations never read the text: one constructed run over "ab", with
\* or without a style map
InitStyles == Init /\ bufs = << <<97, 98>> >>

\* the entries of m whose key is in D
Restrict(m, D) == [k \in D |-> m[k]]

remove_styles_inverted(m, S) == Restrict(m, DOMAIN m \cap S)

\* remove_styles' filter: the entries whose key is not in the set
remove_styles_map(m, S) == Restrict(m, DOMAIN m \ S)

\* HashMap::extend: incoming entries override existing keys
extend_styles_map(m, n) ==
    [k \in DOMAIN m \cup DOMAIN n |-> IF k \in DOMAIN n THEN n[k] ELSE m[k]]

\* the keys remove_styles(S) takes out of run d's map, each with its payload
RemovedEntries(m, d, S) ==
    IF d.styles = 0 THEN EmptyMap ELSE Restrict(m[d.styles], DOMAIN m[d.styles] \cap S)

\* DocString::remove_styles on run r.  The call record keeps what the caller
\* knows: the removed entries (map) and r.styles() before the call (out).
remove_styles(r, S) ==
    /\ r \in 1..Len(runs)
    /\ Len(maps) < MaxMaps
    /\ IF runs[r].styles # 0
       THEN /\ maps' = Append(maps, remove_styles_map(maps[runs[r].styles], S))
            /\ runs' = [runs EXCEPT ![r].styles = Len(maps) + 1]
       ELSE UNCHANGED <<maps, runs>>
    /\ last' = Call("remove_styles", TRUE, r, 0, <<>>, S,
                    RemovedEntries(maps, runs[r], S), styles(maps, runs[r]))
    /\ UNCHANGED <<bufs, ds>>

\* DocString::extend_styles on run r
extend_styles(r, n) ==
    /\ r \in 1..Len(runs)
    /\ Len(maps) < MaxMaps
    /\ IF runs[r].styles # 0
       THEN maps' = Append(maps, extend_styles_map(maps[runs[r].styles], n))
       ELSE maps' = Append(maps, n)
    /\ runs' = [runs EXCEPT ![r].styles = Len(maps) + 1]
    /\ last' = Call("extend_styles", TRUE, r, 0, <<>>, {}, n, <<>>)
    /\ UNCHANGED <<bufs, ds>>

\* the maps a caller extends run r with: a fresh one, or the entries the
\* remove_styles call just made on r took out
ExtendArgs(r) ==
    ExtendMaps \cup (IF last.op = "remove_styles" /\ last.run = r THEN {last.map} ELSE {})

push_str_whole_buffer(h, d, x) == h[d.buf] \o x

\* push_str's new buffer: self.to_string() followed by the input
push_str_value(h, d, x) == as_str(h, d) \o x

\* DocString::push_str on run r
push_str(r, x) ==
    /\ r \in 1..Len(runs)
    /\ Len(bufs) < MaxBufs
    /\ Len(push_str_value(bufs, runs[r], x)) <= MaxLen
    /\ bufs' = Append(bufs, push_str_value(bufs, runs[r], x))
    /\ runs' = [runs EXCEPT ![r].buf = Len(bufs) + 1, ![r].range = None]
    /\ last' = Call("push_str", TRUE, r, 0, x, {}, EmptyMap, <<>>)
    /\ UNCHANGED <<maps, ds>>

\* start and end of the view, as split_at computes them
ViewStart(d) == IF d.range # None THEN d.range[1] ELSE 0
ViewEnd(h, d) == IF d.range # None THEN d.range[2] ELSE Len(h[d.buf])

\* the pair DocString::split_at returns
split_at_pair(h, d, char_boundary) ==
    LET start == ViewStart(d)
        end == ViewEnd(h, d)
        byte_index == slice_inner(Slice(h[d.buf], start, Len(h[d.buf])), char_boundary)
    IN  << DocString(d.buf, <<start + 0, start + byte_index>>, d.styles),
           DocString(d.buf, <<start + byte_index, end>>, d.styles) >>

\* DocString::split_at on run r, with char_index <= char_len; the caller keeps
\* both halves when it has room for them
split_at(r, i) ==
    /\ r \in 1..Len(runs)
    /\ i \in 0..char_len(bufs, runs[r])
    /\ LET pair == split_at_pair(bufs, runs[r], i)
       IN  /\ runs' = IF Len(runs) + 2 <= MaxRuns THEN runs \o pair ELSE runs
           /\ last' = Call("split_at", TRUE, r, i, <<>>, {}, EmptyMap, pair)
    /\ UNCHANGED <<bufs, maps, ds>>

\* ---------------------------------------------------------- DividedString
\* struct DividedString; input is the run handed to new
DividedString(original_range, left_string, right_string, index, input) ==
    [original_range |-> original_range, left_string |-> left_string,
     right_string |-> right_string, index |-> index, input |-> input]

\* usize subtraction: it panics when overflow checks are on and wraps otherwise;
\* <<>> is the panic
usize_sub(a, b, trap) ==
    IF a >= b THEN <<a - b>>
    ELSE IF trap THEN <<>>
    ELSE <<UsizeMax - (b - a) + 1>>

\* DividedString::new: <<>> when it panics, else the splitter
DividedString_new(h, input, index, trap) ==
    LET cl == char_len(h, input)
        limit == usize_sub(cl, 1, trap)
    IN  IF limit = <<>> \/ index > limit[1] THEN <<>>
        ELSE << DividedString(IF input.range # None THEN input.range ELSE <<0, cl>>,
                              input, input, index, input) >>

\* DividedString::new over run r
new(r, index, trap) ==
    /\ r \in 1..Len(runs)
    /\ ds' = DividedString_new(bufs, runs[r], index, trap)
    /\ last' = Call("new", ds' # <<>>, r, index, <<>>, {}, EmptyMap, <<>>)
    /\ UNCHANGED <<bufs, maps, runs>>

\* DividedString::seek: <<>> when it panics, else the splitter moved
seek_value(d, delta) ==
    IF d.index + delta < 0 THEN <<>>
    ELSE IF d.index + delta > RangeLen(d.original_range) THEN <<>>
    ELSE <<[d EXCEPT !.index = d.index + delta]>>

\* DividedString::seek; a panic unwinds the caller and drops the splitter
seek(delta) ==
    /\ ds # <<>>
    /\ ds' = seek_value(ds[1], delta)
    /\ last' = Call("seek", ds' # <<>>, 0, delta, <<>>, {}, EmptyMap, <<>>)
    /\ UNCHANGED <<bufs, maps, runs>>

\* DividedString::update_left
update_left(d) ==
    [d EXCEPT !.left_string.range = <<d.original_range[1] + d.index, d.original_range[2]>>]

update_right_own_slot(d) ==
    [d EXCEPT !.right_string.range = <<d.original_range[1], d.original_range[1] + d.index>>]

\* DividedString::update_right
update_right(d) ==
    [d EXCEPT !.left_string.range = <<d.original_range[1], d.original_range[1] + d.index>>]

\* DividedString::left
left ==
    /\ ds # <<>>
    /\ IF ds[1].index = 0
       THEN /\ ds' = ds
            /\ last' = Call("left", TRUE, 0, 0, <<>>, {}, EmptyMap, None)
       ELSE /\ ds' = <<update_left(ds[1])>>
            /\ last' = Call("left", TRUE, 0, 0, <<>>, {}, EmptyMap, <<ds'[1].left_string>>)
    /\ UNCHANGED <<bufs, maps, runs>>

\* DividedString::right
right ==
    /\ ds # <<>>
    /\ IF ds[1].index >= RangeLen(ds[1].original_range)
       THEN /\ ds' = ds
            /\ last' = Call("right", TRUE, 0, 0, <<>>, {}, EmptyMap, None)
       ELSE /\ ds' = <<update_right(ds[1])>>
            /\ last' = Call("right", TRUE, 0, 0, <<>>, {}, EmptyMap, <<ds'[1].right_string>>)
    /\ UNCHANGED <<bufs, maps, runs>>

\* DividedString::destruct: consumes the splitter
destruct ==
    /\ ds # <<>>
    /\ LET d == update_right(update_left(ds[1]))
       IN  last' = Call("destruct", TRUE, 0, 0, <<>>, {}, EmptyMap,
                        <<d.left_string, d.right_string>>)
    /\ ds' = <<>>
    /\ UNCHANGED <<bufs, maps, runs>>

\* ------------------------------------------------------- specifications
NextText ==
    \/ \E r \in 1..MaxRuns, i \in 0..MaxLen : split_at(r, i)
    \/ \E r \in 1..MaxRuns, x \in PushTexts : push_str(r, x)

NextStyles ==
    \/ \E r \in 1..MaxRuns, i \in 0..MaxLen : split_at(r, i)
    \/ \E r \in 1..MaxRuns, S \in StyleSets : remove_styles(r, S)
    \/ \E r \in 1..MaxRuns : \E n \in ExtendArgs(r) : extend_styles(r, n)

NextDivided ==
    \/ \E r \in 1..MaxRuns, i \in 0..MaxLen : split_at(r, i)
    \/ \E r \in 1..MaxRuns, index \in 0..MaxIndex, trap \in BOOLEAN : new(r, index, trap)
    \/ \E delta \in (0 - MaxSeek)..MaxSeek : seek(delta)
    \/ left
    \/ right
    \/ destruct

Next == NextText \/ NextStyles \/ NextDivided

Spec == Init /\ [][Next]_vars
SpecText == Init /\ [][NextText]_vars
SpecStyles == InitStyles /\ [][NextStyles]_vars
SpecDivided == Init /\ [][NextDivided]_vars

\* ---------------------------------------------------------------- claims
\* the characters of s from character offset c to the end
CharsFrom(s, c) == SubSeq(s, Advance(s, 0, c) + 1, Len(s))

\* C1: split_at(r, i) with 0 <= i <= char_len(r) returns (l, r2) whose visible
\* texts concatenate to r's visible text, with char_len(l) = i and both halves
\* carrying r's styles; at i = 0 and i = char_len(r) one half is empty and the
\* other is the full run.
C1_SplitAt ==
    last.op = "split_at" =>
        LET r == runs[last.run]
            l == last.out[1]
            r2 == last.out[2]
            i == last.arg
        IN  /\ as_str(bufs, l) # Panic
            /\ as_str(bufs, r2) # Panic
            /\ as_str(bufs, l) \o as_str(bufs, r2) = as_str(bufs, r)
            /\ char_len(bufs, l) = i
            /\ l.styles = r.styles /\ styles(maps, l) = styles(maps, r)
            /\ r2.styles = r.styles /\ styles(maps, r2) = styles(maps, r)
            /\ (i = 0 => as_str(bufs, l) = <<>> /\ as_str(bufs, r2) = as_str(bufs, r))
            /\ (i = char_len(bufs, r) =>
                    as_str(bufs, r2) = <<>> /\ as_str(bufs, l) = as_str(bufs, r))

\* a styled sub-range view over multi-byte text was split strictly inside
C1_Witness ==
    /\ last.op = "split_at"
    /\ runs[last.run].range # None
    /\ runs[last.run].styles # 0
    /\ last.arg > 0
    /\ last.arg < char_len(bufs, runs[last.run])
    /\ Len(as_str(bufs, last.out[1])) > last.arg

\* C2: for every cursor c > 0, left() returns a run whose visible text is the
\* characters of the source run from character offset c to its end.
C2_LeftIsSuffix ==
    (/\ last.op = "left"
     /\ last.out # None
     /\ ds # <<>>
     /\ ds[1].index <= char_len(bufs, ds[1].input))
        => as_str(bufs, last.out[1]) = CharsFrom(as_str(bufs, ds[1].input), ds[1].index)

\* C3: seek(delta) fails exactly when cursor + delta < 0 or cursor + delta
\* exceeds the character length of the original range, and otherwise sets the
\* cursor to cursor + delta, which then lies in 0..character length.
C3_SeekBounds ==
    [][(last'.op = "seek" /\ ds # <<>>) =>
        LET c == ds[1].index
            d == last'.arg
            n == char_len(bufs, ds[1].input)
        IN  /\ last'.ok <=> ~(c + d < 0 \/ c + d > n)
            /\ last'.ok => /\ ds' # <<>>
                           /\ ds'[1].index = c + d
                           /\ 0 <= ds'[1].index
                           /\ ds'[1].index <= n]_vars

\* C4: DividedString::new(run, index) fails for every index >= char_len(run),
\* the empty run included, and succeeds with cursor = index otherwise.
C4_NewBounds ==
    last.op = "new" =>
        /\ last.ok <=> last.arg < char_len(bufs, runs[last.run])
        /\ last.ok => ds # <<>> /\ ds[1].index = last.arg

\* C5: left() returns no left part exactly when cursor = 0 and right() returns
\* no right part exactly when cursor >= the character length of the original
\* range.
C5_OptionEnds ==
    ds # <<>> =>
        /\ last.op = "left" => (last.out = None <=> ds[1].index = 0)
        /\ last.op = "right" =>
              (last.out = None <=> ds[1].index >= char_len(bufs, ds[1].input))

\* the view range is absent, or start <= end <= buffer.len() on char boundaries
RangeValid(h, d) ==
    \/ d.range = None
    \/ /\ d.range[1] <= d.range[2]
       /\ d.range[2] <= Len(h[d.buf])
       /\ IsCharBoundary(h[d.buf], d.range[1])
       /\ IsCharBoundary(h[d.buf], d.range[2])

\* C6: every run the safe API hands out (the caller's runs, the halves split_at
\* returns, and the runs left(), right() and destruct() return for a cursor within
\* the source run) has a view range that is absent or satisfies
\* start <= end <= buffer length with both ends on UTF-8 character boundaries.
C6_RangesValid ==
    [][/\ \A q \in 1..Len(runs') : RangeValid(bufs', runs'[q])
       /\ last'.op = "split_at" =>
             \A k \in 1..Len(last'.out) : RangeValid(bufs', last'.out[k])
       /\ (/\ last'.op \in {"left", "right", "destruct"}
           /\ ds # <<>>
           /\ ds[1].index <= char_len(bufs, ds[1].input))
             => \A k \in 1..Len(last'.out) : RangeValid(bufs', last'.out[k])]_vars

\* C7: after r.push_str(x) the visible text of r is its former visible text
\* followed by x, r's view range is cleared, r's styles are unchanged, and every
\* other run keeps its visible text.
C7_PushStr ==
    [][last'.op = "push_str" =>
        LET r == last'.run
        IN  /\ as_str(bufs', runs'[r]) = as_str(bufs, runs[r]) \o last'.text
            /\ runs'[r].range = None
            /\ runs'[r].styles = runs[r].styles
            /\ styles(maps', runs'[r]) = styles(maps, runs[r])
            /\ \A q \in 1..Len(runs) :
                  q # r => as_str(bufs', runs'[q]) = as_str(bufs, runs[q])]_vars

\* text was pushed onto a proper sub-range view whose former buffer another
\* run still shares
C7_Witness ==
    /\ last.op = "push_str"
    /\ last.run > 1
    /\ Len(bufs) = 2
    /\ Len(bufs[runs[last.run].buf]) < Len(bufs[1]) + Len(last.text)
    /\ \E q \in 1..Len(runs) : q # last.run /\ runs[q].buf = 1 /\ runs[q].range # None

\* the step extends a run with the entries the preceding remove_styles call
\* on the same run took out
RoundTrip ==
    /\ last.op = "remove_styles"
    /\ last'.op = "extend_styles"
    /\ last'.run = last.run
    /\ last'.map = last.map

\* a style call on one run leaves the styles of every other run alone
OthersKeepStyles ==
    last'.op \in {"remove_styles", "extend_styles"} =>
        \A q \in 1..Len(runs) :
            q # last'.run => /\ runs'[q].styles = runs[q].styles
                             /\ styles(maps', runs'[q]) = styles(maps, runs[q])

\* C8 as stated: for every run, with or without an attached style map,
\* remove_styles(S) followed by extend_styles with the removed entries leaves
\* styles() as it was, and no other run's styles change.
C8_RoundTripAnyRun ==
    [][/\ OthersKeepStyles
       /\ RoundTrip => styles(maps', runs'[last'.run]) = last.out]_vars

\* C8 amended: for a run with an attached style map the round trip restores
\* the map's content; for a run without one it leaves an attached empty map;
\* no other run's styles change.
C8_RoundTripAttached ==
    [][/\ OthersKeepStyles
       /\ RoundTrip =>
            IF last.out # None
            THEN styles(maps', runs'[last'.run]) = last.out
            ELSE styles(maps', runs'[last'.run]) = <<EmptyMap>>]_vars

\* a round trip that took out some but not all keys of a map another run shares
C8_Witness ==
    /\ last.op = "extend_styles"
    /\ last.map # EmptyMap
    /\ last.map \notin ExtendMaps
    /\ styles(maps, runs[last.run]) # <<last.map>>
    /\ \E q \in 1..Len(runs) : q # last.run /\ runs[q].styles = 1

\* C9: for 0 < cursor < character length, destruct() returns (L, R) with L's
\* visible text that of the run left() returns and R's that of the run right()
\* returns.
C9_DestructAsLeftRight ==
    [][(/\ last'.op = "destruct"
        /\ ds # <<>>
        /\ 0 < ds[1].index
        /\ ds[1].index < char_len(bufs, ds[1].input))
        => /\ as_str(bufs, last'.out[1]) = as_str(bufs, update_left(ds[1]).left_string)
           /\ as_str(bufs, last'.out[2]) = as_str(bufs, update_right(ds[1]).right_string)]_vars

\* C10: the right view is never narrowed: the run right() returns and the
\* second component of destruct() show the whole source run, and seek, left
\* and right leave the right slot as it is.
C10_RightNeverNarrowed ==
    [][ds # <<>> =>
        /\ (last'.op = "right" /\ last'.out # None)
              => as_str(bufs, last'.out[1]) = as_str(bufs, ds[1].input)
        /\ last'.op = "destruct"
              => as_str(bufs, last'.out[2]) = as_str(bufs, ds[1].input)
        /\ (last'.op \in {"seek", "left", "right"} /\ ds' # <<>>)
              => ds'[1].right_string = ds[1].right_string]_vars

\* right() returned a run after the cursor moved off 0 and the left slot was
\* rewritten
C10_Witness ==
    /\ last.op = "right"
    /\ last.out # None
    /\ ds # <<>>
    /\ ds[1].index > 0
    /\ ds[1].left_string.range # ds[1].input.range
    /\ as_str(bufs, last.out[1]) = as_str(bufs, ds[1].input)
====
